---- MODULE Spec2Model ----
(***************************************************************************)
(* graphtage/json.py: the tree builder build_tree, the JSON formatters     *)
(* (JSONListFormatter, JSONDictFormatter, JSONStringFormatter,             *)
(* JSONFormatter) and the JSON file type.                                  *)
(*                                                                         *)
(* Python values are records [type, ...]; a str is the sequence of its     *)
(* code points, a bytes object the sequence of its bytes, a float the      *)
(* number of its tenths.  Tree nodes are records [kind, ...]; a raised     *)
(* exception is a record of kind "raise".                                  *)
(***************************************************************************)
EXTENDS Integers, Sequences, FiniteSets, TLC

VARIABLES call, result, stack, out, last_wc, renders

vars == <<call, result, stack, out, last_wc, renders>>

\* Longest list, tuple or dict drawn as an input.
MaxLen == 2

\* Most hand-backs of one node to a parent formatter that are followed.
MaxDelegations == 3

-----------------------------------------------------------------------------
(* Python objects accepted or rejected by build_tree *)

PyInt(n) == [type |-> "int", val |-> n]
PyFloat(t) == [type |-> "float", val |-> t]
PyBool(b) == [type |-> "bool", val |-> b]
PyStr(s) == [type |-> "str", val |-> s]
PyBytes(b) == [type |-> "bytes", val |-> b]
PyNone == [type |-> "NoneType"]
PyList(xs) == [type |-> "list", items |-> xs]
PyTuple(xs) == [type |-> "tuple", items |-> xs]
PyDict(es) == [type |-> "dict", entries |-> es]

\* The classes a Python type is an instance of: bool is a subclass of int.
Bases(t) == IF t = "bool" THEN {"bool", "int"} ELSE {t}

isinstance(obj, cls) == cls \in Bases(obj.type)

\* Python's == on the numbers: 1 == 1.0 == True.
NumVal(x) ==
    CASE x.type = "int" -> 10 * x.val
      [] x.type = "float" -> x.val
      [] x.type = "bool" -> IF x.val THEN 10 ELSE 0

PyEq(x, y) ==
    IF x.type \in {"int", "float", "bool"} /\ y.type \in {"int", "float", "bool"}
    THEN NumVal(x) = NumVal(y)
    ELSE x = y

\* bytes.decode('utf-8') on one- and two-byte forms; a lone byte above 0x7f
\* or a bad continuation byte raises UnicodeDecodeError.
RECURSIVE Utf8Decode(_)
Utf8Decode(bs) ==
    IF bs = <<>> THEN [ok |-> TRUE, text |-> <<>>]
    ELSE IF bs[1] < 128
    THEN LET rest == Utf8Decode(Tail(bs))
         IN  [ok |-> rest.ok, text |-> <<bs[1]>> \o rest.text]
    ELSE IF bs[1] >= 194 /\ bs[1] <= 223 /\ Len(bs) >= 2
            /\ bs[2] >= 128 /\ bs[2] <= 191
    THEN LET rest == Utf8Decode(Tail(Tail(bs)))
         IN  [ok |-> rest.ok,
              text |-> <<(bs[1] - 192) * 64 + (bs[2] - 128)>> \o rest.text]
    ELSE [ok |-> FALSE, text |-> <<>>]

-----------------------------------------------------------------------------
(* Tree nodes and exceptions *)

IntegerNode(obj) == [kind |-> "IntegerNode", object |-> obj]
FloatNode(obj) == [kind |-> "FloatNode", object |-> obj]
BoolNode(obj) == [kind |-> "BoolNode", object |-> obj]
StringNode(s) == [kind |-> "StringNode", object |-> PyStr(s)]
ListNode(children) == [kind |-> "ListNode", children |-> children]
KeyValuePairNode(k, v) == [kind |-> "KeyValuePairNode", key |-> k, value |-> v]

Raise(exc, msg, obj) == [kind |-> "raise", exc |-> exc, msg |-> msg, obj |-> obj]

ExpectedLeaf == "was expected to be an int or string"
Unsupported == "Unsupported Python object"

\* LeafNode.__eq__ / __hash__: two leaves are the same dict key when their
\* wrapped objects are equal.
NodeEq(a, b) == PyEq(a.object, b.object)

\* dict.__setitem__ on the dict under construction: an equal key keeps its
\* place and its first key object, and takes the new value.
DictSet(items, k, v) ==
    IF \E i \in DOMAIN items : NodeEq(items[i][1], k)
    THEN [i \in DOMAIN items |->
             IF NodeEq(items[i][1], k) THEN <<items[i][1], v>> ELSE items[i]]
    ELSE Append(items, <<k, v>>)

\* DictNode.from_dict / FixedKeyDictNode.from_dict: one KeyValuePairNode per
\* item of the dict.
from_dict(cls, items) ==
    [kind |-> cls,
     children |-> [i \in DOMAIN items |-> KeyValuePairNode(items[i][1], items[i][2])]]

-----------------------------------------------------------------------------
(* build_tree *)

RECURSIVE build_tree(_, _, _)
RECURSIVE list_children(_, _)
RECURSIVE dict_items(_, _)

\* Mutants of the comprehensions of lines 52 and 54-57.
\* The children are collected in reverse order.
list_children_reversed(xs, allow_key_edits) ==
    IF xs = <<>> THEN [kind |-> "built", children |-> <<>>]
    ELSE LET prev == list_children(SubSeq(xs, 1, Len(xs) - 1), allow_key_edits)
         IN  IF prev.kind = "raise" THEN prev
             ELSE LET n == build_tree(xs[Len(xs)], allow_key_edits, FALSE)
                  IN  IF n.kind = "raise" THEN n
                      ELSE [kind |-> "built", children |-> <<n>> \o prev.children]

\* allow_key_edits is not passed on and takes its default, True.
list_children_default_key_edits(xs, allow_key_edits) ==
    IF xs = <<>> THEN [kind |-> "built", children |-> <<>>]
    ELSE LET prev == list_children(SubSeq(xs, 1, Len(xs) - 1), allow_key_edits)
         IN  IF prev.kind = "raise" THEN prev
             ELSE LET n == build_tree(xs[Len(xs)], TRUE, FALSE)
                  IN  IF n.kind = "raise" THEN n
                      ELSE [kind |-> "built", children |-> Append(prev.children, n)]

\* An element that cannot be built is dropped.
list_children_dropping(xs, allow_key_edits) ==
    IF xs = <<>> THEN [kind |-> "built", children |-> <<>>]
    ELSE LET prev == list_children(SubSeq(xs, 1, Len(xs) - 1), allow_key_edits)
         IN  IF prev.kind = "raise" THEN prev
             ELSE LET n == build_tree(xs[Len(xs)], allow_key_edits, FALSE)
                  IN  IF n.kind = "raise" THEN prev
                      ELSE [kind |-> "built", children |-> Append(prev.children, n)]

\* The key is built without force_leaf_node.
dict_items_unforced_key(es, allow_key_edits) ==
    IF es = <<>> THEN [kind |-> "built", items |-> <<>>]
    ELSE LET prev == dict_items(SubSeq(es, 1, Len(es) - 1), allow_key_edits)
         IN  IF prev.kind = "raise" THEN prev
             ELSE LET k == build_tree(es[Len(es)][1], allow_key_edits, FALSE)
                  IN  IF k.kind = "raise" THEN k
                      ELSE LET v == build_tree(es[Len(es)][2], allow_key_edits, FALSE)
                           IN  IF v.kind = "raise" THEN v
                               ELSE [kind |-> "built",
                                     items |-> DictSet(prev.items, k, v)]

\* The list comprehension of line 52: the elements are built left to right
\* and the first exception ends the comprehension.
list_children(xs, allow_key_edits) ==
    IF xs = <<>> THEN [kind |-> "built", children |-> <<>>]
    ELSE LET prev == list_children(SubSeq(xs, 1, Len(xs) - 1), allow_key_edits)
         IN  IF prev.kind = "raise" THEN prev
             ELSE LET n == build_tree(xs[Len(xs)], allow_key_edits, FALSE)
                  IN  IF n.kind = "raise" THEN n
                      ELSE [kind |-> "built", children |-> Append(prev.children, n)]

\* The dict comprehension of lines 54-57: for each entry the key is built
\* (as a forced leaf), then the value, then the pair is stored.
dict_items(es, allow_key_edits) ==
    IF es = <<>> THEN [kind |-> "built", items |-> <<>>]
    ELSE LET prev == dict_items(SubSeq(es, 1, Len(es) - 1), allow_key_edits)
         IN  IF prev.kind = "raise" THEN prev
             ELSE LET k == build_tree(es[Len(es)][1], allow_key_edits, TRUE)
                  IN  IF k.kind = "raise" THEN k
                      ELSE LET v == build_tree(es[Len(es)][2], allow_key_edits, FALSE)
                           IN  IF v.kind = "raise" THEN v
                               ELSE [kind |-> "built",
                                     items |-> DictSet(prev.items, k, v)]

build_tree(python_obj, allow_key_edits, force_leaf_node) ==
    IF isinstance(python_obj, "int") THEN IntegerNode(python_obj)
    ELSE IF isinstance(python_obj, "float") THEN FloatNode(python_obj)
    ELSE IF isinstance(python_obj, "bool") THEN BoolNode(python_obj)
    ELSE IF isinstance(python_obj, "str") THEN StringNode(python_obj.val)
    ELSE IF isinstance(python_obj, "bytes")
    THEN LET d == Utf8Decode(python_obj.val)
         IN  IF d.ok THEN StringNode(d.text)
             ELSE Raise("UnicodeDecodeError", "invalid start byte", python_obj)
    ELSE IF force_leaf_node THEN Raise("ValueError", ExpectedLeaf, python_obj)
    ELSE IF isinstance(python_obj, "list") \/ isinstance(python_obj, "tuple")
    THEN LET c == list_children(python_obj.items, allow_key_edits)
         IN  IF c.kind = "raise" THEN c ELSE ListNode(c.children)
    ELSE IF isinstance(python_obj, "dict")
    THEN LET d == dict_items(python_obj.entries, allow_key_edits)
         IN  IF d.kind = "raise" THEN d
             ELSE IF allow_key_edits THEN from_dict("DictNode", d.items)
             ELSE from_dict("FixedKeyDictNode", d.items)
    ELSE Raise("ValueError", Unsupported, python_obj)

-----------------------------------------------------------------------------
(* The inputs build_tree is called on *)

SeqsUpTo(S, n) == UNION {[1..k -> S] : k \in 0..n}

\* A Python dict holds no two equal keys.
DistinctKeys(es) ==
    \A i, j \in DOMAIN es : i # j => ~PyEq(es[i][1], es[j][1])

Lists(S, n) == {PyList(xs) : xs \in SeqsUpTo(S, n)}
Tuples(S, n) == {PyTuple(xs) : xs \in SeqsUpTo(S, n)}
Dicts(K, V, n) == {PyDict(es) : es \in {s \in SeqsUpTo(K \X V, n) : DistinctKeys(s)}}

Atoms ==
    {PyInt(1), PyFloat(25), PyBool(TRUE), PyBool(FALSE), PyStr(<<97>>), PyStr(<<98>>),
     PyBytes(<<97>>), PyBytes(<<255>>), PyNone}

\* Hashable objects used as dict keys: the atoms, None and a tuple.
Keys ==
    {PyInt(1), PyFloat(25), PyBool(TRUE), PyStr(<<97>>), PyBytes(<<97>>), PyBytes(<<255>>),
     PyNone, PyTuple(<<PyInt(1)>>)}

FlatValues == {PyInt(1), PyBool(TRUE), PyStr(<<97>>), PyNone}

Level1 ==
    Lists(Atoms, MaxLen) \cup Tuples(Atoms, MaxLen) \cup Dicts(Keys, FlatValues, MaxLen)

\* Containers nested inside other containers.
Inner ==
    Lists({PyBool(TRUE), PyNone}, 1) \cup Tuples({PyBool(FALSE)}, 1)
        \cup Dicts({PyStr(<<97>>), PyTuple(<<PyInt(1)>>)}, {PyBool(TRUE), PyNone}, 1)
        \cup {PyDict(<< <<PyStr(<<97>>), PyInt(1)>>, <<PyBytes(<<97>>), PyBool(TRUE)>> >>)}

Level2 ==
    Lists(Inner \cup {PyInt(1), PyNone}, MaxLen)
        \cup Dicts({PyStr(<<97>>), PyBytes(<<97>>), PyTuple(<<PyInt(1)>>)}, Inner, MaxLen)

Level3 ==
    {PyList(<<PyDict(<< <<PyStr(<<97>>), v>> >>)>>) : v \in Inner}
        \cup {PyDict(<< <<PyStr(<<98>>), PyList(<<v>>)>> >>) : v \in Inner}

Objects == Atoms \cup Level1 \cup Level2 \cup Level3

-----------------------------------------------------------------------------
(* The JSON file type *)

\* What json.load can return: None, bool, int, float, str, list, and dict
\* with str keys.
RECURSIVE IsJson(_)
IsJson(o) ==
    CASE o.type \in {"NoneType", "bool", "int", "float", "str"} -> TRUE
      [] o.type = "list" -> \A i \in DOMAIN o.items : IsJson(o.items[i])
      [] o.type = "dict" ->
            \A i \in DOMAIN o.entries :
                o.entries[i][1].type = "str" /\ IsJson(o.entries[i][2])
      [] OTHER -> FALSE

JsonObjects == {o \in Objects : IsJson(o)}

\* json.decoder.JSONDecodeError(msg, doc, pos), with its lineno and colno.
JSONDecodeError(msg, lineno, colno, pos) ==
    Raise("JSONDecodeError", msg, [lineno |-> lineno, colno |-> colno, pos |-> pos])

ParseErrors ==
    {JSONDecodeError(m, p[1], p[2], p[3]) :
        m \in {"Expecting value", "Extra data"}, p \in {<<1, 1, 0>>, <<3, 5, 42>>}}

\* What open(path) and json.load find: no file, a malformed text, or a text
\* holding a JSON value.
Files ==
    {[exists |-> FALSE]}
        \cup {[exists |-> TRUE, parse |-> e] : e \in ParseErrors}
        \cup {[exists |-> TRUE, parse |-> [kind |-> "value", value |-> o]] : o \in JsonObjects}

\* A path is the sequence of its characters.
Paths == {<<"x">>, <<"d", "/", "x">>, <<"/", "d", "/", "e", "/", "y">>}

\* The classes an exception is an instance of.
ExceptionBases(exc) ==
    CASE exc = "JSONDecodeError" -> {"JSONDecodeError", "ValueError", "Exception"}
      [] exc = "UnicodeDecodeError" -> {"UnicodeDecodeError", "ValueError", "Exception"}
      [] exc = "ValueError" -> {"ValueError", "Exception"}
      [] exc = "FileNotFoundError" -> {"FileNotFoundError", "OSError", "Exception"}

RECURSIVE Join(_)
Join(cs) == IF cs = <<>> THEN "" ELSE cs[1] \o Join(Tail(cs))

\* os.path.basename: the text after the last '/'.
basename(path) ==
    LET slashes == {i \in DOMAIN path : path[i] = "/"}
        i == IF slashes = {} THEN 0 ELSE CHOOSE k \in slashes : \A j \in slashes : j <= k
    IN  Join(SubSeq(path, i + 1, Len(path)))

\* JSON.build_tree: open the file, parse it, build the tree.
JSON_build_tree(path, file, allow_key_edits) ==
    IF ~file.exists THEN Raise("FileNotFoundError", "No such file or directory", PyNone)
    ELSE IF file.parse.kind = "raise" THEN file.parse
    ELSE build_tree(file.parse.value, allow_key_edits, FALSE)

\* The f-string of line 214.
error_message(path, de) ==
    "Error parsing " \o basename(path) \o ": " \o de.msg \o ": line "
        \o ToString(de.obj.lineno) \o ", column " \o ToString(de.obj.colno)
        \o " (char " \o ToString(de.obj.pos) \o ")"

\* Mutant: every exception is turned into a returned string.
build_tree_handling_errors_catch_all(path, file, allow_key_edits) ==
    LET r == JSON_build_tree(path, file, allow_key_edits)
    IN  IF r.kind = "raise"
        THEN IF "JSONDecodeError" \in ExceptionBases(r.exc)
             THEN [kind |-> "str", text |-> error_message(path, r)]
             ELSE [kind |-> "str", text |-> "Error parsing " \o basename(path) \o ": " \o r.msg]
        ELSE r

\* JSON.build_tree_handling_errors: only json.decoder.JSONDecodeError is
\* caught.
build_tree_handling_errors(path, file, allow_key_edits) ==
    LET r == JSON_build_tree(path, file, allow_key_edits)
    IN  IF r.kind = "raise" /\ "JSONDecodeError" \in ExceptionBases(r.exc)
        THEN [kind |-> "str", text |-> error_message(path, r)]
        ELSE r

-----------------------------------------------------------------------------
(* json.dumps *)

RECURSIVE Digits(_)
Digits(n) == IF n < 10 THEN <<48 + n>> ELSE Digits(n \div 10) \o <<48 + (n % 10)>>

HexDigit(d) == IF d < 10 THEN 48 + d ELSE 87 + d

\* '\\u{0:04x}'.format(n)
Hex4(n) ==
    <<92, 117, HexDigit(n \div 4096), HexDigit((n \div 256) % 16),
      HexDigit((n \div 16) % 16), HexDigit(n % 16)>>

\* json.encoder.py_encode_basestring_ascii on one character: the short
\* escapes, printable ASCII unchanged, \uXXXX for the rest, a surrogate pair
\* above the basic plane.
EscapeChar(c) ==
    CASE c = 34 -> <<92, 34>>
      [] c = 92 -> <<92, 92>>
      [] c = 10 -> <<92, 110>>
      [] c = 13 -> <<92, 114>>
      [] c = 9 -> <<92, 116>>
      [] c = 12 -> <<92, 102>>
      [] c = 8 -> <<92, 98>>
      [] c >= 32 /\ c <= 126 /\ c # 34 /\ c # 92 -> <<c>>
      [] c >= 65536 ->
            Hex4(55296 + ((c - 65536) \div 1024)) \o Hex4(56320 + ((c - 65536) % 1024))
      [] OTHER -> Hex4(c)

RECURSIVE EscapeAll(_)
EscapeAll(cs) == IF cs = <<>> THEN <<>> ELSE EscapeChar(cs[1]) \o EscapeAll(Tail(cs))

\* json.dumps of a leaf object, as the code points of its text.
json_dumps(obj) ==
    CASE obj.type = "str" -> <<34>> \o EscapeAll(obj.val) \o <<34>>
      [] obj.type = "bool" -> IF obj.val THEN <<116, 114, 117, 101>> ELSE <<102, 97, 108, 115, 101>>
      [] obj.type = "int" -> Digits(obj.val)
      [] obj.type = "float" -> Digits(obj.val \div 10) \o <<46>> \o Digits(obj.val % 10)
      [] obj.type = "NoneType" -> <<110, 117, 108, 108>>

\* Mutant: a removed character is written as it is.
write_char_raw_when_removed(c, index, num_edits, removed, inserted) ==
    IF removed THEN <<c>>
    ELSE SubSeq(json_dumps(PyStr(<<c>>)), 2, Len(json_dumps(PyStr(<<c>>))) - 1)

\* JSONStringFormatter.write_char: the text handed to printer.write.
write_char(c, index, num_edits, removed, inserted) ==
    SubSeq(json_dumps(PyStr(<<c>>)), 2, Len(json_dumps(PyStr(<<c>>))) - 1)

-----------------------------------------------------------------------------
(* The formatters *)

\* The classes of a node, most specific first.
NodeMRO(kind) ==
    CASE kind \in {"IntegerNode", "FloatNode", "BoolNode", "StringNode"} ->
            <<kind, "LeafNode", "TreeNode">>
      [] kind = "ListNode" -> <<kind, "SequenceNode", "ContainerNode", "TreeNode">>
      [] kind = "KeyValuePairNode" -> <<kind, "ContainerNode", "TreeNode">>
      [] kind = "DictNode" ->
            <<kind, "MappingNode", "MultiSetNode", "SequenceNode", "ContainerNode", "TreeNode">>
      [] kind = "FixedKeyDictNode" ->
            <<kind, "MappingNode", "SequenceNode", "ContainerNode", "TreeNode">>
      [] kind = "MultiSetNode" -> <<kind, "SequenceNode", "ContainerNode", "TreeNode">>
      [] kind = "MappingNode" -> <<kind, "ContainerNode", "TreeNode">>

\* JSONFormatter.sub_format_types
sub_format_types == <<"JSONStringFormatter", "JSONListFormatter", "JSONDictFormatter">>

sub_formatters(f) == IF f = "JSONFormatter" THEN sub_format_types ELSE <<>>

parent(f) == IF f = "JSONFormatter" THEN "none" ELSE "JSONFormatter"

\* The node classes each formatter class has a print_<class> method for.
JSONFormatter_handlers == {"LeafNode", "KeyValuePairNode"}

\* Mutant: print_MultiSetNode is defined on the list formatter.
JSONListFormatter_handlers_with_multiset == {"ListNode", "MultiSetNode", "SequenceNode"}

JSONListFormatter_handlers == {"ListNode", "SequenceNode"}

JSONDictFormatter_handlers == {"MultiSetNode", "MappingNode", "SequenceNode"}

\* StringFormatter.print_StringNode, inherited by JSONStringFormatter.
JSONStringFormatter_handlers == {"StringNode"}

Handlers(f) ==
    CASE f = "JSONFormatter" -> JSONFormatter_handlers
      [] f = "JSONListFormatter" -> JSONListFormatter_handlers
      [] f = "JSONDictFormatter" -> JSONDictFormatter_handlers
      [] f = "JSONStringFormatter" -> JSONStringFormatter_handlers

\* SequenceFormatter.__init__(start_symbol, end_symbol, delimiter):
\* '[', ']', ',' for lists and '{', '}', ',' for dicts.
Symbols(f) ==
    CASE f = "JSONListFormatter" -> [start |-> <<91>>, end |-> <<93>>, delimiter |-> <<44>>]
      [] f = "JSONDictFormatter" -> [start |-> <<123>>, end |-> <<125>>, delimiter |-> <<44>>]

\* Formatter.get_formatter: for each class of the node, most specific first,
\* the base formatter and then each of its sub-formatters is asked for a
\* print_<class> method; when none has one the parent formatter is searched.
RECURSIVE get_formatter(_, _)
get_formatter(base, kind) ==
    LET mro == NodeMRO(kind)
        fs == <<base>> \o sub_formatters(base)
        hits == {p \in (DOMAIN mro) \X (DOMAIN fs) : mro[p[1]] \in Handlers(fs[p[2]])}
        first == CHOOSE p \in hits :
                    \A q \in hits : p[1] < q[1] \/ (p[1] = q[1] /\ p[2] <= q[2])
    IN  IF hits # {} THEN [fmt |-> fs[first[2]], h |-> mro[first[1]]]
        ELSE IF parent(base) # "none" THEN get_formatter(parent(base), kind)
        ELSE [fmt |-> "none", h |-> "none"]

\* Mutant: print_SequenceNode hands the node to self.print.
delegate_to_self(f) == f

\* The formatter whose print the print_SequenceNode overrides of lines 101
\* and 142 call: self.parent.
delegate_target(f) == parent(f)

(* Frames of the printing call stack *)

NoNode == [kind |-> "none"]

\* A call fmt.print(printer, node); chain lists the handlers that handed
\* this node back so far.
PrintFrame(fmt, node, chain) ==
    [t |-> "print", fmt |-> fmt, h |-> "none", node |-> node, chain |-> chain,
     text |-> <<>>, i |-> 0]

\* A call of the method fmt.print_<h>(printer, node).
HandlerFrame(fmt, h, node, chain) ==
    [t |-> "handler", fmt |-> fmt, h |-> h, node |-> node, chain |-> chain,
     text |-> <<>>, i |-> 0]

\* A pending printer.write(text).
WriteFrame(text) ==
    [t |-> "write", fmt |-> "none", h |-> "none", node |-> NoNode, chain |-> <<>>,
     text |-> text, i |-> 0]

\* The string formatter's loop over the characters of node, at character i.
CharsFrame(fmt, node, i) ==
    [t |-> "chars", fmt |-> fmt, h |-> "none", node |-> node, chain |-> <<>>,
     text |-> <<>>, i |-> i]

\* SequenceFormatter.print_SequenceNode: the start symbol, each child through
\* self.print with the delimiter between children, the end symbol.
RECURSIVE ChildFrames(_, _, _)
ChildFrames(fmt, children, delimiter) ==
    IF children = <<>> THEN <<>>
    ELSE IF Len(children) = 1 THEN <<PrintFrame(fmt, children[1], <<>>)>>
    ELSE <<PrintFrame(fmt, children[1], <<>>), WriteFrame(delimiter)>>
            \o ChildFrames(fmt, Tail(children), delimiter)

print_SequenceNode(fmt, node) ==
    <<WriteFrame(Symbols(fmt).start)>>
        \o ChildFrames(fmt, node.children, Symbols(fmt).delimiter)
        \o <<WriteFrame(Symbols(fmt).end)>>

(* The trees handed to the formatter *)

PrintedStrings == {PyStr(<<97, 34>>), PyStr(<<92, 10, 233>>), PyStr(<<1, 128512>>)}

PrintedObjects ==
    {PyInt(1), PyFloat(25), PyBool(TRUE)} \cup PrintedStrings
        \cup Lists({PyInt(1), PyStr(<<97, 34>>), PyList(<<>>),
                    PyDict(<< <<PyStr(<<97>>), PyBool(TRUE)>> >>)}, MaxLen)
        \cup Dicts({PyStr(<<97>>), PyStr(<<98>>)},
                   {PyInt(1), PyList(<<PyInt(1)>>), PyDict(<<>>)}, MaxLen)

BuiltTrees ==
    {build_tree(o, e, FALSE) : o \in PrintedObjects, e \in BOOLEAN}

\* Trees of the generalized kinds, as a diff produces them, and the kinds
\* build_tree does not return at top level.
Generalized ==
    {[t EXCEPT !.kind = "MultiSetNode"] :
        t \in {u \in BuiltTrees : u.kind \in {"ListNode", "DictNode"}}}
        \cup {[t EXCEPT !.kind = "MappingNode"] : t \in {u \in BuiltTrees : u.kind = "DictNode"}}

PrintedTrees ==
    BuiltTrees \cup Generalized
        \cup {ListNode(<<g>>) : g \in {u \in Generalized : Len(u.children) <= 1}}
        \cup {t.children[1] : t \in {u \in BuiltTrees : u.kind = "DictNode" /\ u.children # <<>>}}
        \cup {BoolNode(PyBool(FALSE))}

-----------------------------------------------------------------------------
(* State machine *)

Idle == [op |-> "idle"]

Init ==
    /\ call = Idle
    /\ result = [kind |-> "none"]
    /\ stack = <<>>
    /\ out = <<>>
    /\ last_wc = [kind |-> "none"]
    /\ renders = {}

\* A caller invokes build_tree(python_obj, allow_key_edits, force_leaf_node).
BuildTreeCall ==
    /\ call = Idle
    /\ \E python_obj \in Objects, allow_key_edits \in BOOLEAN, force_leaf_node \in BOOLEAN :
          /\ call' = [op |-> "build_tree", python_obj |-> python_obj,
                      allow_key_edits |-> allow_key_edits,
                      force_leaf_node |-> force_leaf_node]
          /\ result' = build_tree(python_obj, allow_key_edits, force_leaf_node)
    /\ UNCHANGED <<stack, out, last_wc, renders>>

\* A caller invokes JSON().build_tree_handling_errors(path, allow_key_edits)
\* with `file` at that path.
BuildTreeHandlingErrorsCall ==
    /\ call = Idle
    /\ \E path \in Paths, file \in Files, allow_key_edits \in BOOLEAN :
          /\ call' = [op |-> "build_tree_handling_errors", path |-> path,
                      file |-> file, allow_key_edits |-> allow_key_edits]
          /\ result' = build_tree_handling_errors(path, file, allow_key_edits)
    /\ UNCHANGED <<stack, out, last_wc, renders>>

Printing == call.op = "print" /\ stack # <<>>

Top == stack[1]

\* The top frame is replaced by the frames fs.
Replace(fs) == stack' = fs \o Tail(stack)

\* A caller invokes JSONFormatter.DEFAULT_INSTANCE.print(printer, node).
PrintCall ==
    /\ call = Idle
    /\ \E node \in PrintedTrees :
          /\ call' = [op |-> "print", node |-> node]
          /\ stack' = <<PrintFrame("JSONFormatter", node, <<>>)>>
    /\ UNCHANGED <<result, out, last_wc, renders>>

\* GraphtageFormatter.print: look the handler up and call it; a node with no
\* handler is a fatal error.
Dispatch ==
    /\ Printing
    /\ Top.t = "print"
    /\ LET f == get_formatter(Top.fmt, Top.node.kind)
       IN  IF f.fmt = "none"
           THEN /\ stack' = <<>>
                /\ result' = Raise("NotImplementedError", "no formatter", Top.node)
           ELSE /\ Replace(<<HandlerFrame(f.fmt, f.h, Top.node, Top.chain)>>)
                /\ UNCHANGED result
    /\ UNCHANGED <<call, out, last_wc, renders>>

\* super().print_SequenceNode(*args, **kwargs): the sequence is printed with
\* the formatter's own symbols.
SuperPrintSequenceNode ==
    /\ Replace(print_SequenceNode(Top.fmt, Top.node))
    /\ renders' = renders \cup
          {[kind |-> Top.node.kind, fmt |-> Top.fmt, start |-> Symbols(Top.fmt).start,
            end |-> Symbols(Top.fmt).end, delimiter |-> Symbols(Top.fmt).delimiter]}
    /\ UNCHANGED <<call, result, out, last_wc>>

\* JSONListFormatter.print_ListNode
print_ListNode ==
    /\ Printing
    /\ Top.t = "handler"
    /\ Top.h = "ListNode"
    /\ SuperPrintSequenceNode

\* JSONDictFormatter.print_MultiSetNode
print_MultiSetNode ==
    /\ Printing
    /\ Top.t = "handler"
    /\ Top.h = "MultiSetNode"
    /\ SuperPrintSequenceNode

\* JSONDictFormatter.print_MappingNode
print_MappingNode ==
    /\ Printing
    /\ Top.t = "handler"
    /\ Top.h = "MappingNode"
    /\ SuperPrintSequenceNode

\* self.parent.print(*args, **kwargs): the node is handed to the parent
\* formatter's print.
ParentPrint ==
    /\ Len(Top.chain) < MaxDelegations
    /\ Replace(<<PrintFrame(delegate_target(Top.fmt), Top.node,
                            Append(Top.chain, [fmt |-> Top.fmt, h |-> Top.h]))>>)
    /\ UNCHANGED <<call, result, out, last_wc, renders>>

\* JSONListFormatter.print_SequenceNode
JSONListFormatter_print_SequenceNode ==
    /\ Printing
    /\ Top.t = "handler"
    /\ Top.fmt = "JSONListFormatter"
    /\ Top.h = "SequenceNode"
    /\ ParentPrint

\* JSONDictFormatter.print_SequenceNode
JSONDictFormatter_print_SequenceNode ==
    /\ Printing
    /\ Top.t = "handler"
    /\ Top.fmt = "JSONDictFormatter"
    /\ Top.h = "SequenceNode"
    /\ ParentPrint

\* JSONFormatter.print_LeafNode
print_LeafNode ==
    /\ Printing
    /\ Top.t = "handler"
    /\ Top.h = "LeafNode"
    /\ Replace(<<WriteFrame(json_dumps(Top.node.object))>>)
    /\ UNCHANGED <<call, result, out, last_wc, renders>>

\* JSONFormatter.print_KeyValuePairNode: the key, ": ", the value.
print_KeyValuePairNode ==
    /\ Printing
    /\ Top.t = "handler"
    /\ Top.h = "KeyValuePairNode"
    /\ Replace(<<PrintFrame(Top.fmt, Top.node.key, <<>>), WriteFrame(<<58, 32>>),
                 PrintFrame(Top.fmt, Top.node.value, <<>>)>>)
    /\ UNCHANGED <<call, result, out, last_wc, renders>>

\* StringFormatter.print_StringNode: the quotes around the characters, each
\* character written through write_char.
print_StringNode ==
    /\ Printing
    /\ Top.t = "handler"
    /\ Top.h = "StringNode"
    /\ Replace(<<WriteFrame(<<34>>)>>
                  \o (IF Top.node.object.val = <<>> THEN <<>>
                      ELSE <<CharsFrame(Top.fmt, Top.node, 1)>>)
                  \o <<WriteFrame(<<34>>)>>)
    /\ UNCHANGED <<call, result, out, last_wc, renders>>

\* One call of JSONStringFormatter.write_char, with the edit marks the diff
\* gives the character.
WriteChar ==
    /\ Printing
    /\ Top.t = "chars"
    /\ \E removed \in BOOLEAN, inserted \in BOOLEAN, num_edits \in 0..1 :
          LET c == Top.node.object.val[Top.i]
              text == write_char(c, Top.i - 1, num_edits, removed, inserted)
          IN  /\ out' = out \o text
              /\ last_wc' = [kind |-> "write_char", c |-> c, index |-> Top.i - 1,
                             num_edits |-> num_edits, removed |-> removed,
                             inserted |-> inserted, text |-> text,
                             at |-> Len(out) + Len(text)]
    /\ IF Top.i < Len(Top.node.object.val)
       THEN Replace(<<CharsFrame(Top.fmt, Top.node, Top.i + 1)>>)
       ELSE Replace(<<>>)
    /\ UNCHANGED <<call, result, renders>>

\* printer.write(text)
Write ==
    /\ Printing
    /\ Top.t = "write"
    /\ out' = out \o Top.text
    /\ Replace(<<>>)
    /\ UNCHANGED <<call, result, last_wc, renders>>

Next ==
    \/ BuildTreeCall
    \/ BuildTreeHandlingErrorsCall
    \/ PrintCall
    \/ Dispatch
    \/ print_ListNode
    \/ print_MultiSetNode
    \/ print_MappingNode
    \/ JSONListFormatter_print_SequenceNode
    \/ JSONDictFormatter_print_SequenceNode
    \/ print_LeafNode
    \/ print_KeyValuePairNode
    \/ print_StringNode
    \/ WriteChar
    \/ Write

Spec == Init /\ [][Next]_vars

-----------------------------------------------------------------------------
(* Properties of build_tree *)

Built == call.op = "build_tree"

AtomicKinds == {"int", "float", "bool", "str", "bytes"}
SupportedKinds == AtomicKinds \cup {"list", "tuple", "dict"}

Decodable(o) == o.type = "bytes" => Utf8Decode(o.val).ok

\* Some mapping inside o (reached through list elements and mapping values)
\* has a key that is not an integer, float, boolean, text or byte string.
RECURSIVE HasNonAtomicKey(_)
HasNonAtomicKey(o) ==
    CASE o.type \in {"list", "tuple"} -> \E i \in DOMAIN o.items : HasNonAtomicKey(o.items[i])
      [] o.type = "dict" ->
            \E i \in DOMAIN o.entries :
                \/ o.entries[i][1].type \notin AtomicKinds
                \/ HasNonAtomicKey(o.entries[i][2])
      [] OTHER -> FALSE

\* o, or a list element or mapping value inside it, is of an unsupported kind.
RECURSIVE HasUnsupportedValue(_)
HasUnsupportedValue(o) ==
    CASE o.type \in {"list", "tuple"} -> \E i \in DOMAIN o.items : HasUnsupportedValue(o.items[i])
      [] o.type = "dict" -> \E i \in DOMAIN o.entries : HasUnsupportedValue(o.entries[i][2])
      [] OTHER -> o.type \notin SupportedKinds

\* Some byte string inside o (element, key or value) is not valid UTF-8.
RECURSIVE HasUndecodable(_)
HasUndecodable(o) ==
    CASE o.type \in {"list", "tuple"} -> \E i \in DOMAIN o.items : HasUndecodable(o.items[i])
      [] o.type = "dict" ->
            \E i \in DOMAIN o.entries :
                ~Decodable(o.entries[i][1]) \/ HasUndecodable(o.entries[i][2])
      [] OTHER -> ~Decodable(o)

\* o is in the builder's accepted domain: supported kinds throughout, atomic
\* keys, valid UTF-8.
Accepted(o) == ~HasNonAtomicKey(o) /\ ~HasUnsupportedValue(o) /\ ~HasUndecodable(o)

IsExpectedLeafError(r) == r.kind = "raise" /\ r.exc = "ValueError" /\ r.msg = ExpectedLeaf
IsUnsupportedError(r) == r.kind = "raise" /\ r.exc = "ValueError" /\ r.msg = Unsupported

\* Every boolean of o, at top level, as a list element, a mapping key or a
\* mapping value, became a BoolNode in the tree n built from o.
RECURSIVE BoolsAreBoolNodes(_, _)
BoolsAreBoolNodes(o, n) ==
    CASE o.type = "bool" -> n.kind = "BoolNode"
      [] o.type \in {"list", "tuple"} ->
            \A i \in DOMAIN o.items : BoolsAreBoolNodes(o.items[i], n.children[i])
      [] o.type = "dict" ->
            Len(n.children) = Len(o.entries) =>
                \A i \in DOMAIN o.entries :
                    /\ BoolsAreBoolNodes(o.entries[i][1], n.children[i].key)
                    /\ BoolsAreBoolNodes(o.entries[i][2], n.children[i].value)
      [] OTHER -> TRUE

\* C1: for every boolean input, at top level or nested as a list element,
\* mapping key or mapping value, and for both values of allow_key_edits and
\* force_leaf_node, the node build_tree builds for it is a BoolNode.
C1_BooleanBuiltAsBoolNode ==
    (Built /\ result.kind # "raise") => BoolsAreBoolNodes(call.python_obj, result)

\* C2: whenever some mapping of the input, at any depth, has a non-atomic
\* key, build_tree fails with the atomic-value ValueError, whatever
\* allow_key_edits is.
C2_NonAtomicKeyRaisesExpectedLeaf ==
    (Built /\ HasNonAtomicKey(call.python_obj)) => IsExpectedLeafError(result)

\* C2 (amended): whenever some mapping of the input has a non-atomic key,
\* build_tree returns no tree, whatever allow_key_edits is; the failure is
\* the atomic-value ValueError, raised for a non-atomic object, when the input
\* holds no unsupported-kind value and no undecodable byte string.
C2_NonAtomicKeyNeverBuilt ==
    (Built /\ HasNonAtomicKey(call.python_obj)) =>
        /\ result.kind = "raise"
        /\ (~HasUnsupportedValue(call.python_obj) /\ ~HasUndecodable(call.python_obj)) =>
               (IsExpectedLeafError(result) /\ result.obj.type \notin AtomicKinds)

C2_Witness ==
    /\ Built
    /\ call.python_obj.type = "list"
    /\ HasNonAtomicKey(call.python_obj)
    /\ ~call.force_leaf_node
    /\ ~call.allow_key_edits
    /\ IsExpectedLeafError(result)
    /\ result.obj.type = "tuple"

\* C3: whenever the input, or a list element or mapping value inside it, is
\* of an unsupported kind, build_tree raises the unsupported-kind ValueError.
C3_UnsupportedRaisesUnsupported ==
    (Built /\ HasUnsupportedValue(call.python_obj)) => IsUnsupportedError(result)

\* C3 (amended): whenever the input, or a list element or mapping value
\* inside it, is of an unsupported kind, build_tree returns no tree; the
\* failure is the unsupported-kind ValueError, carrying the offending value,
\* when force_leaf_node is false and the input holds no non-atomic key and no
\* undecodable byte string.
C3_UnsupportedNeverBuilt ==
    (Built /\ HasUnsupportedValue(call.python_obj)) =>
        /\ result.kind = "raise"
        /\ (/\ ~call.force_leaf_node
            /\ ~HasNonAtomicKey(call.python_obj)
            /\ ~HasUndecodable(call.python_obj)) =>
               (IsUnsupportedError(result) /\ result.obj.type \notin SupportedKinds)

C3_Witness ==
    /\ Built
    /\ call.python_obj.type = "dict"
    /\ Len(call.python_obj.entries) = 1
    /\ call.python_obj.entries[1][2].type = "list"
    /\ HasUnsupportedValue(call.python_obj)
    /\ IsUnsupportedError(result)
    /\ result.obj = PyNone

C5_ListChildrenInOrder ==
    (/\ Built
     /\ ~call.force_leaf_node
     /\ call.python_obj.type \in {"list", "tuple"}
     /\ Accepted(call.python_obj)) =>
        /\ result.kind = "ListNode"
        /\ Len(result.children) = Len(call.python_obj.items)
        /\ \A i \in DOMAIN call.python_obj.items :
              result.children[i] =
                  build_tree(call.python_obj.items[i], call.allow_key_edits, FALSE)

C5_Witness ==
    /\ Built
    /\ call.python_obj.type = "tuple"
    /\ result.kind = "ListNode"
    /\ Len(result.children) = MaxLen
    /\ result.children[1].kind = "StringNode"
    /\ result.children[MaxLen].kind = "FloatNode"

\* Every mapping node of tree n, at every depth, is of class cls.
RECURSIVE MappingsAre(_, _)
MappingsAre(n, cls) ==
    CASE n.kind \in {"DictNode", "FixedKeyDictNode"} ->
            n.kind = cls /\ \A i \in DOMAIN n.children : MappingsAre(n.children[i], cls)
      [] n.kind = "ListNode" -> \A i \in DOMAIN n.children : MappingsAre(n.children[i], cls)
      [] n.kind = "KeyValuePairNode" -> MappingsAre(n.key, cls) /\ MappingsAre(n.value, cls)
      [] OTHER -> TRUE

\* C9: in every tree build_tree returns, every mapping node at every depth
\* is a DictNode when allow_key_edits is true and a FixedKeyDictNode when it
\* is false.
C9_KeyEditsThreaded ==
    (Built /\ result.kind # "raise") =>
        MappingsAre(result, IF call.allow_key_edits THEN "DictNode" ELSE "FixedKeyDictNode")

C9_Witness ==
    /\ Built
    /\ ~call.allow_key_edits
    /\ result.kind = "FixedKeyDictNode"
    /\ \E i \in DOMAIN result.children :
          /\ result.children[i].value.kind = "ListNode"
          /\ \E j \in DOMAIN result.children[i].value.children :
                result.children[i].value.children[j].kind = "FixedKeyDictNode"

-----------------------------------------------------------------------------
(* Properties of JSON.build_tree_handling_errors *)

Handled == call.op = "build_tree_handling_errors"

ParseFailed(file) == file.exists /\ file.parse.kind = "raise"

\* b is the last component of path: the characters after its last '/'.
IsLastComponent(b, path) ==
    \E k \in 0..Len(path) :
        /\ k > 0 => path[k] = "/"
        /\ \A i \in (k + 1)..Len(path) : path[i] # "/"
        /\ b = Join(SubSeq(path, k + 1, Len(path)))

\* C6: build_tree_handling_errors returns a string if and only if the parser
\* reported a parse error, and the string is "Error parsing <basename>:
\* <message>: line <L>, column <C> (char <O>)"; a parsed value is built with
\* force_leaf_node false, and a failure of the builder (or of open) reaches
\* the caller as an exception, never as a string.
C6_OnlyParseErrorsBecomeStrings ==
    Handled =>
        /\ result.kind = "str" <=> ParseFailed(call.file)
        /\ ParseFailed(call.file) =>
              \E b \in {basename(call.path)} :
                  /\ IsLastComponent(b, call.path)
                  /\ result.text =
                        "Error parsing " \o b \o ": " \o call.file.parse.msg
                            \o ": line " \o ToString(call.file.parse.obj.lineno)
                            \o ", column " \o ToString(call.file.parse.obj.colno)
                            \o " (char " \o ToString(call.file.parse.obj.pos) \o ")"
        /\ (call.path = <<"d", "/", "x">> /\ ParseFailed(call.file)
               /\ call.file.parse.msg = "Expecting value" /\ call.file.parse.obj.pos = 42) =>
              result.text = "Error parsing x: Expecting value: line 3, column 5 (char 42)"
        /\ (call.file.exists /\ ~ParseFailed(call.file)) =>
              result = build_tree(call.file.parse.value, call.allow_key_edits, FALSE)
        /\ (call.file.exists /\ ~ParseFailed(call.file)
               /\ HasUnsupportedValue(call.file.parse.value)) =>
              IsUnsupportedError(result)
        /\ ~call.file.exists => result.kind = "raise"

C6_Witness ==
    /\ Handled
    /\ call.path = <<"/", "d", "/", "e", "/", "y">>
    /\ result.kind = "str"
    /\ result.text = "Error parsing y: Extra data: line 3, column 5 (char 42)"

-----------------------------------------------------------------------------
(* Properties of the formatters *)

\* The handlers that handed the node of frame f back never include the one
\* now called for it.
NoRedispatch(f) ==
    f.t = "handler" => \A k \in DOMAIN f.chain : f.chain[k] # [fmt |-> f.fmt, h |-> f.h]

\* The method of frame f prints its node itself.
Renders(f) == f.h \in {"LeafNode", "KeyValuePairNode", "StringNode", "ListNode",
                       "MultiSetNode", "MappingNode"}

\* C7: for every node kind of the data model a print started at
\* JSONFormatter reaches a method that renders the node: every lookup finds
\* a handler, a node handed back by print_SequenceNode is never dispatched to
\* the method that handed it back, and the dispatch after a hand-back reaches
\* a rendering method.
C7_DelegationReachesOwner ==
    call.op = "print" =>
        /\ result.kind # "raise"
        /\ \A k \in DOMAIN stack :
              /\ NoRedispatch(stack[k])
              /\ (stack[k].t = "handler" /\ stack[k].chain # <<>>) =>
                    (Renders(stack[k]) /\ Len(stack[k].chain) = 1)

C7_Witness ==
    /\ Printing
    /\ Top.t = "handler"
    /\ Top.node.kind = "FixedKeyDictNode"
    /\ Top.fmt = "JSONDictFormatter"
    /\ Top.chain = <<[fmt |-> "JSONListFormatter", h |-> "SequenceNode"]>>

\* C8: the text write_char writes for a character is its JSON escape
\* (json.dumps of the character without the enclosing quotes), whatever
\* removed, inserted, index and num_edits are, and it is what reaches the
\* printer: a string printed under any edit marks comes out as its quoted
\* escape.
C8_EscapeIgnoresEditMarks ==
    last_wc.kind = "write_char" =>
        /\ <<34>> \o last_wc.text \o <<34>> = json_dumps(PyStr(<<last_wc.c>>))
        /\ last_wc.text = EscapeChar(last_wc.c)
        /\ last_wc.c = 34 => last_wc.text = <<92, 34>>
        /\ last_wc.c = 10 => last_wc.text = <<92, 110>>
        /\ last_wc.c = 233 => last_wc.text = <<92, 117, 48, 48, 101, 57>>
        /\ last_wc.c = 97 => last_wc.text = <<97>>
        /\ SubSeq(out, last_wc.at - Len(last_wc.text) + 1, last_wc.at) = last_wc.text
        /\ (call.op = "print" /\ stack = <<>> /\ call.node.kind = "StringNode") =>
              out = <<34>> \o EscapeAll(call.node.object.val) \o <<34>>

C8_Witness ==
    /\ last_wc.kind = "write_char"
    /\ last_wc.c = 34
    /\ last_wc.removed
    /\ ~last_wc.inserted
    /\ last_wc.index = 1
    /\ last_wc.text = <<92, 34>>

\* C10: a MultiSetNode is rendered by the list-style formatter ('[', ']',
\* ',') and a MappingNode by the dict-style formatter ('{', '}', ','), the
\* same owner every time.
C10_MultiSetListStyle ==
    \A r \in renders :
        /\ r.kind = "MultiSetNode" =>
              (r.fmt = "JSONListFormatter" /\ r.start = <<91>> /\ r.end = <<93>>
                  /\ r.delimiter = <<44>>)
        /\ r.kind = "MappingNode" =>
              (r.fmt = "JSONDictFormatter" /\ r.start = <<123>> /\ r.end = <<125>>
                  /\ r.delimiter = <<44>>)

\* C10 (amended): a MultiSetNode and a MappingNode are both rendered by the
\* dict-style formatter ('{', '}', ','), the same owner every time.
C10_GeneralizedDictStyle ==
    \A r \in renders :
        r.kind \in {"MultiSetNode", "MappingNode"} =>
            (r.fmt = "JSONDictFormatter" /\ r.start = <<123>> /\ r.end = <<125>>
                /\ r.delimiter = <<44>>)

C10_Witness ==
    /\ call.op = "print"
    /\ stack = <<>>
    /\ call.node.kind = "ListNode"
    /\ \E r \in renders : r.kind = "MultiSetNode" /\ r.fmt = "JSONDictFormatter"
    /\ \E r \in renders : r.kind = "ListNode" /\ r.fmt = "JSONListFormatter"
    /\ out[2] = 123

====
